---- MODULE Spec2Model ----
(***************************************************************************)
(* Capstone group matcher: pairwise compatibility (main.py), team assembly *)
(* and project allocation (main.py form_teams), the team score             *)
(* (ml_matching.py) and the interactive refinement loop (tui.py).          *)
(*                                                                         *)
(* Numbers.  Pairwise compatibility is kept in hundredths (an integer),    *)
(* every other real is an exact rational <<num, den>> in lowest terms.     *)
(* Python computes in binary floating point; the model computes the exact  *)
(* value and rounds ties half-to-even where Python rounds the nearest      *)
(* double.                                                                 *)
(***************************************************************************)
EXTENDS Integers, Sequences, FiniteSets, TLC

\* ---------------------------------------------------------------- bounds
MaxRoster == 6          \* largest roster form_teams is called on
MaxSessionRoster == 6   \* largest roster a whole run of main is followed on
MaxProjects == 3        \* largest num_projects drawn by Init
MaxMoves == 2           \* move commands accepted in one session

\* ------------------------------------------------------- program constants
NumRanks == 5           \* project rank columns read by parse_students
NumChoices == 10        \* teammate choice columns read by parse_students
LOW_SCORE_THRESHOLD == <<45, 100>>

None == "None"

\* ------------------------------------------------------------- rationals
RECURSIVE GCD(_, _)
GCD(a, b) == IF b = 0 THEN a ELSE GCD(b, a % b)

Abs(x) == IF x < 0 THEN -x ELSE x

Reduce(n, d, g) == IF d < 0 THEN <<(-n) \div g, (-d) \div g>> ELSE <<n \div g, d \div g>>

Rat(n, d) == IF n = 0 THEN <<0, 1>> ELSE Reduce(n, d, GCD(Abs(n), Abs(d)))

RAdd(x, y) == Rat(x[1] * y[2] + y[1] * x[2], x[2] * y[2])
RSub(x, y) == Rat(x[1] * y[2] - y[1] * x[2], x[2] * y[2])
RMul(x, y) == Rat(x[1] * y[1], x[2] * y[2])
RLess(x, y) == x[1] * y[2] < y[1] * x[2]
RMax(x, y) == IF RLess(x, y) THEN y ELSE x
RMin(x, y) == IF RLess(y, x) THEN y ELSE x

RECURSIVE RSum(_)
RSum(s) == IF s = <<>> THEN <<0, 1>> ELSE RAdd(Head(s), RSum(Tail(s)))

\* statistics.fmean of a non-empty sequence
fmean(s) == RMul(RSum(s), <<1, Len(s)>>)

RECURSIVE ISum(_)
ISum(s) == IF s = <<>> THEN 0 ELSE Head(s) + ISum(Tail(s))

\* round(x, k) and format(x, ".kf"): x as an integer count of 10^-k units
RoundUnits(x, unit) ==
    LET n == x[1] * unit
        d == x[2]
        q == n \div d
        r == n % d
    IN  IF 2 * r < d THEN q
        ELSE IF 2 * r > d THEN q + 1
        ELSE IF q % 2 = 0 THEN q ELSE q + 1

\* ------------------------------------------------------------ the roster
SkillKeys == <<"frontend", "backend", "database", "testing">>

\* parse_students: the ten teammate choice cells, blank cells kept as ""
TeammateCells(choices) == choices \o [i \in 1..(NumChoices - Len(choices)) |-> ""]

Student(name, ranks, choices, sk, avail, ws, mp) ==
    [name |-> name,
     project_ranks |-> ranks,
     teammate_ranks |-> TeammateCells(choices),
     skills |-> [k \in {SkillKeys[i] : i \in 1..4} |->
                    sk[CHOOSE i \in 1..4 : SkillKeys[i] = k]],
     availability |-> avail,
     workstyle |-> ws,
     meeting_pref |-> mp]

\* Survey rows as parse_students delivers them.  Free text is held as its
\* sequence of lower-case word tokens (re.findall in simple_sentiment).
Pool ==
    << Student("Ann", <<5, 4, 3, 2, 1>>, <<"Bob">>, <<5, 1, 2, 1>>, 10,
               <<"cooperative", "reliable">>, <<"online">>),
       Student("Bob", <<5, 3, 4, 1, 2>>, <<"Ann", "Cat">>, <<1, 5, 2, 2>>, 10,
               <<"lazy">>, <<"late">>),
       Student("Cat", <<1, 2, 3, 4, 5>>, <<>>, <<3, 3, 3, 3>>, 11,
               <<"flexible">>, <<>>),
       Student("Dan", <<1, 2, 3, 4, 5>>, <<>>, <<3, 3, 3, 3>>, 11,
               <<"flexible">>, <<>>),
       Student("Eve", <<0, 0, 0, 0, 0>>, <<"Ann", "Fay">>, <<0, 0, 0, 0>>, 0,
               <<"hate", "conflict", "good">>, <<>>),
       Student("Fay", <<2, 5, 1, 4, 3>>, <<"Dan", "Eve">>, <<2, 4, 5, 1>>, 12,
               <<"great">>, <<"friendly", "mornings">>),
       Student("Gus", <<3, 3, 5, 5, 0>>, <<"Gus">>, <<4, 0, 1, 5>>, 40,
               <<>>, <<"whenever">>) >>

\* A Student object is known by the survey row it was parsed from: the roster,
\* the pool of assembly and the member lists hold row numbers, as the program's
\* lists hold references to the one object per row.
\* A row form_teams is also called with: Lee is close to the twins Cat and
\* Dan and names both, so that two pairs share the highest score.
LateRows ==
    << Student("Lee", <<1, 2, 3, 5, 5>>, <<"Cat", "Dan">>, <<3, 3, 3, 3>>, 15,
               <<"helpful">>, <<>>) >>

Sheet == Pool \o LateRows

Rows == [r \in 1..Len(Sheet) |-> r]

Row(r) == Sheet[r]

Deref(refs) == [k \in 1..Len(refs) |-> Row(refs[k])]

RECURSIVE SubSeqOf(_, _)
\* the members of seq at the positions in idx, in roster order
SubSeqOf(seq, idx) ==
    IF seq = <<>> THEN <<>>
    ELSE LET rest == SubSeqOf(Tail(seq), {i - 1 : i \in idx \ {1}})
         IN  IF 1 \in idx THEN <<Head(seq)>> \o rest ELSE rest

Reverse(s) == [i \in 1..Len(s) |-> s[Len(s) + 1 - i]]

Rosters ==
    LET picks == {idx \in SUBSET (1..Len(Sheet)) :
                     Cardinality(idx) >= 1 /\ Cardinality(idx) <= MaxRoster}
    IN  {SubSeqOf(Rows, idx) : idx \in picks}
          \cup {Reverse(SubSeqOf(Rows, idx)) : idx \in picks}

\* the rosters a whole run is followed on: the first rows of the survey
\* sheet, in sheet order
Windows ==
    {SubSeqOf(Rows, 1 .. hi) :
        hi \in {h \in 1..Len(Pool) : h <= MaxSessionRoster}}

\* ------------------------------------------- main.py compute_compatibility
Contains(seq, x) == \E i \in 1..Len(seq) : seq[i] = x

MinLen(a, b) == IF Len(a) < Len(b) THEN Len(a) ELSE Len(b)

\* sum(abs(a - b) for a, b in zip(...))
ZipDiff(a, b) == ISum([i \in 1..MinLen(a, b) |-> Abs(a[i] - b[i])])

\* the mutual bonus given when only one of the two names the other
teammate_score_either(s1, s2) ==
    IF Contains(s1.teammate_ranks, s2.name) \/ Contains(s2.teammate_ranks, s1.name)
    THEN 100
    ELSE 0

\* the bonus read from the first student's choices alone
teammate_score_first(s1, s2) ==
    IF Contains(s1.teammate_ranks, s2.name) THEN 100 ELSE 0

\* main.py:90-91
teammate_score(s1, s2) ==
    IF Contains(s1.teammate_ranks, s2.name) /\ Contains(s2.teammate_ranks, s1.name)
    THEN 100
    ELSE IF Contains(s1.teammate_ranks, s2.name) \/ Contains(s2.teammate_ranks, s1.name)
         THEN 50
    ELSE 0

\* the score in hundredths: round(total, 2) * 100
compute_compatibility(s1, s2) ==
    LET proj_diff == ZipDiff(s1.project_ranks, s2.project_ranks)
        project_score == RSub(<<100, 1>>, Rat(proj_diff * 100, 5 * 5))
        skill_diff == ISum([i \in 1..4 |->
                        Abs(s1.skills[SkillKeys[i]] - s2.skills[SkillKeys[i]])])
        skill_score == RSub(<<100, 1>>, Rat(skill_diff * 100, 4 * 5))
        avail_diff == Abs(s1.availability - s2.availability)
        avail_score == RMax(<<0, 1>>, RSub(<<100, 1>>, Rat(avail_diff * 100, 40)))
        total == RAdd(RAdd(RMul(<<4, 10>>, project_score),
                           RMul(<<3, 10>>, <<teammate_score(s1, s2), 1>>)),
                      RAdd(RMul(<<2, 10>>, skill_score),
                           RMul(<<1, 10>>, avail_score)))
    IN  RoundUnits(total, 100)

\* ------------------------------------------------------------ ml_matching.py
POS_WORDS ==
    {"great", "good", "excellent", "love", "cooperative", "teamwork", "supportive",
     "helpful", "reliable", "positive", "productive", "motivated", "enthusiastic",
     "respectful", "friendly", "aligned"}

NEG_WORDS ==
    {"bad", "poor", "hate", "lazy", "conflict", "toxic", "unreliable", "late",
     "negative", "unmotivated", "disrespectful", "hostile", "argumentative",
     "misaligned"}

CountIn(words, lexicon) == Cardinality({i \in 1..Len(words) : words[i] \in lexicon})

\* sentiment in [-1, 1] of one text
SentimentOf(pos, neg) ==
    RMax(<<-1, 1>>,
         RMin(<<1, 1>>, Rat(pos - neg, IF pos + neg > 1 THEN pos + neg ELSE 1)))

simple_sentiment(words) ==
    IF words = <<>> THEN <<0, 1>>
    ELSE SentimentOf(CountIn(words, POS_WORDS), CountIn(words, NEG_WORDS))

aggregate_sentiment(texts) ==
    IF texts = <<>> THEN <<0, 1>>
    ELSE fmean([i \in 1..Len(texts) |-> simple_sentiment(texts[i])])

SeqSet(seq) == {seq[i] : i \in 1..Len(seq)}

\* the in-team pairs (i, j), i < j
PairsOf(n) == {ij \in (1..n) \X (1..n) : ij[1] < ij[2]}

\* inter / union of two students' sets of teammate choice cells
Agreement(a, b) ==
    Rat(Cardinality(a \cap b),
        IF Cardinality(a \cup b) = 0 THEN 1 ELSE Cardinality(a \cup b))

RECURSIVE AgreementsFrom(_, _, _)
\* the loops at ml_matching.py:226-233 from the pair (i, j) on, cells being
\* the students' sets of teammate choice cells
AgreementsFrom(cells, i, j) ==
    IF i > Len(cells) THEN <<>>
    ELSE IF j > Len(cells) THEN AgreementsFrom(cells, i + 1, i + 2)
    ELSE (IF cells[i] # {} \/ cells[j] # {}
          THEN <<Agreement(cells[i], cells[j])>>
          ELSE <<>>) \o AgreementsFrom(cells, i, j + 1)

pairwise_agreements(students) ==
    AgreementsFrom([k \in 1..Len(students) |-> SeqSet(students[k].teammate_ranks)], 1, 2)

MaxOf(S) == CHOOSE x \in S : \A y \in S : y <= x

\* statistics.variance: the sample variance, (n*Sum(x^2) - Sum(x)^2) / (n*(n-1))
variance(vals) ==
    Rat(Len(vals) * ISum([i \in 1..Len(vals) |-> vals[i] * vals[i]]) - ISum(vals) * ISum(vals),
        Len(vals) * (Len(vals) - 1))

\* statistics.fmean(agreements) if agreements else 0.5
SynergyOf(agreements) == IF agreements = <<>> THEN <<1, 2>> ELSE fmean(agreements)

\* TeamFeatures of a team: [free_texts, skills_coverage, availability_harmony,
\* pairwise_synergy]
compute_team_features(students) ==
    LET n == Len(students)
    IN  [free_texts |->
            [i \in 1..(2 * n) |->
                IF i % 2 = 1 THEN students[(i + 1) \div 2].workstyle
                ELSE students[i \div 2].meeting_pref],
         skills_coverage |->
            IF n = 0 THEN <<0, 1>>
            ELSE fmean([i \in 1..4 |->
                    RMin(<<1, 1>>,
                         Rat(MaxOf({0} \cup {students[j].skills[SkillKeys[i]] : j \in 1..n}),
                             5))]),
         availability_harmony |->
            IF n = 0 THEN <<1, 1>>
            ELSE RMax(<<0, 1>>,
                      RSub(<<1, 1>>,
                           IF n > 1 THEN variance([i \in 1..n |-> students[i].availability])
                           ELSE <<0, 1>>)),
         pairwise_synergy |-> SynergyOf(pairwise_agreements(students))]

\* max(0.0, min(1.0, raw))
Clamp01(raw) == RMax(<<0, 1>>, RMin(<<1, 1>>, raw))

\* AIMatcher.score_team on the default weights, no trained pipeline, bias 0
score_team(feats) ==
    LET sent == aggregate_sentiment(feats.free_texts)
        text_score == RMul(RAdd(sent, <<1, 1>>), <<1, 2>>)
        raw == RAdd(RAdd(RMul(<<25, 100>>, text_score),
                         RMul(<<30, 100>>, feats.skills_coverage)),
                    RAdd(RMul(<<20, 100>>, feats.availability_harmony),
                         RMul(<<25, 100>>, feats.pairwise_synergy)))
    IN  Clamp01(raw)

\* ------------------------------------------------------------------ tui.py
recalc_scores(teams_) ==
    [i \in 1..Len(teams_) |-> score_team(compute_team_features(Deref(teams_[i])))]

list_scores(scores_) == [i \in 1..Len(scores_) |-> RoundUnits(scores_[i], 1000)]

\* ------------------------------------------------------------------- state
VARIABLES
    pc,                 \* where main() stands
    students,           \* the parsed roster
    num_projects,       \* form_teams' team and project count
    interactive,        \* --interactive given
    compat,             \* form_teams: pair of names -> score in hundredths
    team_sizes,         \* form_teams: target sizes
    remaining,          \* form_teams: students not yet placed
    teams,              \* the team dicts; teams[i].members is team_lists[i]
    project_scores,     \* form_teams: per team, per project mean rank
    assigned_projects,  \* form_teams: project ids claimed
    err,                \* the exception that ended the run, or None
    session,            \* state of the refinement session
    scores,             \* interactive_loop: the scores last computed
    shown,              \* team scores last printed, in thousandths
    warnings,           \* result of the last warn_low_scores
    report,             \* what the last command printed
    moves,              \* move commands entered so far
    should_export,      \* main: what the session told the caller
    final_teams,        \* what write_team_results was given
    arg1, arg2,         \* compute_compatibility called on its own
    total               \* its result

vars == <<pc, students, num_projects, interactive, compat, team_sizes, remaining,
          teams, project_scores, assigned_projects, err, session, scores, shown,
          warnings, report, moves, should_export, final_teams, arg1, arg2, total>>

formVars == <<compat, team_sizes, remaining, teams, project_scores, assigned_projects>>
loopVars == <<session, scores, shown, warnings, report, moves>>
pureVars == <<arg1, arg2, total>>

\* main.py:220 - the member lists themselves, not copies
team_lists == [i \in 1..Len(teams) |-> teams[i].members]

InitWith(rosters) ==
    /\ pc = "main"
    /\ students \in rosters
    /\ num_projects \in 1..MaxProjects
    /\ interactive \in BOOLEAN
    /\ compat = <<>>
    /\ team_sizes = <<>>
    /\ remaining = <<>>
    /\ teams = <<>>
    /\ project_scores = <<>>
    /\ assigned_projects = {}
    /\ err = None
    /\ session = None
    /\ scores = <<>>
    /\ shown = <<>>
    /\ warnings = <<>>
    /\ report = None
    /\ moves = 0
    /\ should_export = FALSE
    /\ final_teams = <<>>
    /\ arg1 = None
    /\ arg2 = None
    /\ total = -1

\* a whole run of main(), the survey being a window of the pool
Init == InitWith(Windows)

\* form_teams alone, on every selection of survey rows
InitForm == InitWith(Rosters)

\* ---------------------------------------------------- main.py form_teams
\* the guard without its factor two
InsufficientRoster_one(n, p) == n < p

InsufficientRoster(n, p) == n < p * 2

\* compat[(s1.name, s2.name)] over combinations(students, 2); a later pair with
\* the same two names overwrites an earlier one
CompatTable(studs) ==
    LET key(ij) == <<Row(studs[ij[1]]).name, Row(studs[ij[2]]).name>>
        pairs == PairsOf(Len(studs))
        before(x, y) == x[1] < y[1] \/ (x[1] = y[1] /\ x[2] <= y[2])
    IN  [k \in {key(ij) : ij \in pairs} |->
            LET last == CHOOSE ij \in pairs :
                            key(ij) = k /\ \A o \in pairs : key(o) = k => before(o, ij)
            IN  compute_compatibility(Row(studs[last[1]]), Row(studs[last[2]]))]

\* every team given the extra member
TeamSizes_all_extra(n, p) == [i \in 1..p |-> (n \div p) + 1]

TeamSizes(n, p) ==
    LET base_size == n \div p
        extras == n % p
    IN  [i \in 1..p |-> IF i - 1 < extras THEN base_size + 1 ELSE base_size]

RECURSIVE Combinations(_, _)
\* itertools.combinations(seq, k), in its order
Combinations(seq, k) ==
    IF k = 0 THEN << <<>> >>
    ELSE IF Len(seq) < k THEN <<>>
    ELSE LET with == Combinations(Tail(seq), k - 1)
         IN  [i \in 1..Len(with) |-> <<Head(seq)>> \o with[i]]
               \o Combinations(Tail(seq), k)

\* compat.get((a, b)) or compat.get((b, a)) or 0
CompatGet(tbl, a, b) ==
    IF <<a, b>> \in DOMAIN tbl /\ tbl[<<a, b>>] # 0 THEN tbl[<<a, b>>]
    ELSE IF <<b, a>> \in DOMAIN tbl /\ tbl[<<b, a>>] # 0 THEN tbl[<<b, a>>]
    ELSE 0

PairScores(tbl, combo) ==
    LET prs == Combinations([i \in 1..Len(combo) |-> i], 2)
    IN  [k \in 1..Len(prs) |-> CompatGet(tbl, Row(combo[prs[k][1]]).name, Row(combo[prs[k][2]]).name)]

\* sum(pair_scores) / len(pair_scores), in hundredths
Mean(pair_scores) == Rat(ISum(pair_scores), Len(pair_scores))

AvgScore(tbl, combo) == Mean(PairScores(tbl, combo))

\* a later combination taking over on an equal score
Better_or_equal(avg_score, best_score) == ~RLess(avg_score, best_score)

Better(avg_score, best_score) == RLess(best_score, avg_score)

NoCombo == [found |-> FALSE, combo |-> <<>>, score |-> <<-100, 1>>, raised |-> None]

RECURSIVE BestCombo(_, _, _, _)
\* the loop at main.py:137 from combination k on; best_score starts at -1 and
\* best_combo at None (found = FALSE); an empty pair list divides by zero
BestCombo(tbl, combos, k, best) ==
    IF k > Len(combos) THEN best
    ELSE IF Len(combos[k]) < 2 THEN [best EXCEPT !.raised = "ZeroDivisionError"]
    ELSE LET avg_score == AvgScore(tbl, combos[k])
         IN  IF Better(avg_score, best.score)
             THEN BestCombo(tbl, combos, k + 1,
                            [found |-> TRUE, combo |-> combos[k],
                             score |-> avg_score, raised |-> None])
             ELSE BestCombo(tbl, combos, k + 1, best)

RECURSIVE RemoveFirst(_, _)
\* list.remove
RemoveFirst(seq, x) ==
    IF seq = <<>> THEN <<>>
    ELSE IF Head(seq) = x THEN Tail(seq)
    ELSE <<Head(seq)>> \o RemoveFirst(Tail(seq), x)

\* the chosen students left in the pool
RemoveAll_none(seq, gone) == seq

RECURSIVE RemoveAll(_, _)
\* main.py:148-149
RemoveAll(seq, gone) ==
    IF gone = <<>> THEN seq ELSE RemoveAll(RemoveFirst(seq, Head(gone)), Tail(gone))

Abort(e) ==
    /\ pc' = "aborted"
    /\ err' = e

\* main.py:115-129
FormTeamsEnter ==
    /\ pc = "main"
    /\ LET n == Len(students) IN
       IF InsufficientRoster(n, num_projects)
       THEN /\ Abort("ValueError")
            /\ UNCHANGED formVars
       ELSE /\ pc' = "assemble"
            /\ compat' = CompatTable(students)
            /\ team_sizes' = TeamSizes(n, num_projects)
            /\ remaining' = students
            /\ teams' = <<>>
            /\ UNCHANGED <<project_scores, assigned_projects, err>>
    /\ UNCHANGED <<students, num_projects, interactive, should_export, final_teams>>
    /\ UNCHANGED loopVars
    /\ UNCHANGED pureVars

\* main.py:133-154, one pass of the loop over team_sizes
AssembleStep ==
    /\ pc = "assemble"
    /\ Len(teams) < Len(team_sizes)
    /\ LET size == team_sizes[Len(teams) + 1]
           best == BestCombo(compat, Combinations(remaining, size), 1, NoCombo)
       IN  IF best.raised # None
           THEN /\ Abort(best.raised)
                /\ UNCHANGED <<remaining, teams>>
           ELSE IF ~best.found
           THEN /\ Abort("TypeError")
                /\ UNCHANGED <<remaining, teams>>
           ELSE /\ remaining' = RemoveAll(remaining, best.combo)
                /\ teams' = Append(teams, [compatibility |-> RoundUnits(best.score, 1),
                                           members |-> best.combo])
                /\ UNCHANGED <<pc, err>>
    /\ UNCHANGED <<students, num_projects, interactive, should_export, final_teams, compat, team_sizes,
                   project_scores, assigned_projects>>
    /\ UNCHANGED loopVars
    /\ UNCHANGED pureVars

\* the rank turned round, 1 the best
RankValue_inverted(rank) == NumRanks + 1 - rank

\* main.py:161: a project's value for a member is the rank the member gave it
RankValue(rank) == rank

\* main.py:158-164
ProjectPreferences ==
    /\ pc = "assemble"
    /\ Len(teams) = Len(team_sizes)
    /\ IF \E t \in 1..Len(teams) : \E m \in 1..Len(teams[t].members) :
              Len(Row(teams[t].members[m]).project_ranks) < num_projects
       THEN /\ Abort("IndexError")
            /\ UNCHANGED project_scores
       ELSE /\ pc' = "allocate"
            /\ project_scores' =
                 [t \in 1..Len(teams) |->
                    [i \in 1..num_projects |->
                       Rat(ISum([m \in 1..Len(teams[t].members) |->
                                    RankValue(Row(teams[t].members[m]).project_ranks[i])]),
                           Len(teams[t].members))]]
            /\ UNCHANGED err
    /\ UNCHANGED <<students, num_projects, interactive, should_export, final_teams, compat, team_sizes,
                   remaining, teams, assigned_projects>>
    /\ UNCHANGED loopVars
    /\ UNCHANGED pureVars

\* the scan without its uniqueness test
Unclaimed_any(i, assigned) == TRUE

\* main.py:173
Unclaimed(i, assigned) == i \notin assigned

\* the scan taking every unclaimed project it meets
Claims_always(val, best_value) == TRUE

Claims(val, best_value) == RLess(best_value, val)

RECURSIVE PickProject(_, _, _, _, _)
\* the scan at main.py:172-175 from project i on; 0 stands for best_project None
PickProject(scores_, i, assigned, best_project, best_value) ==
    IF i > Len(scores_) THEN best_project
    ELSE IF Unclaimed(i, assigned) /\ Claims(scores_[i], best_value)
         THEN PickProject(scores_, i + 1, assigned, i, scores_[i])
    ELSE PickProject(scores_, i + 1, assigned, best_project, best_value)

\* f"{best_project}"
ProjectLabel(best_project) ==
    IF best_project = 0 THEN "None"
    ELSE <<"1", "2", "3", "4", "5", "6", "7", "8", "9">>[best_project]

\* the project id a label stands for, 0 for "None"
ProjectId(label) ==
    IF \E i \in 1..9 : ProjectLabel(i) = label
    THEN CHOOSE i \in 1..9 : ProjectLabel(i) = label
    ELSE 0

\* main.py:167-177, one pass of the loop over teams
AllocateStep ==
    /\ pc = "allocate"
    /\ project_scores # <<>>
    /\ LET t == Len(teams) - Len(project_scores) + 1
           best_project == PickProject(Head(project_scores), 1, assigned_projects,
                                       0, <<-1, 1>>)
       IN  /\ project_scores' = Tail(project_scores)
           /\ assigned_projects' = assigned_projects \cup {best_project}
           /\ teams' = [teams EXCEPT ![t] = teams[t] @@ [project |-> ProjectLabel(best_project)]]
    /\ UNCHANGED <<pc, err, students, num_projects, interactive, should_export, final_teams, compat,
                   team_sizes, remaining>>
    /\ UNCHANGED loopVars
    /\ UNCHANGED pureVars

\* main.py:179, 220-224
FormTeamsReturn ==
    /\ pc = "allocate"
    /\ project_scores = <<>>
    /\ pc' = "formed"
    /\ UNCHANGED <<err, students, num_projects, interactive, should_export, final_teams>>
    /\ UNCHANGED formVars
    /\ UNCHANGED loopVars
    /\ UNCHANGED pureVars

\* ------------------------------------------------------------------ tui.py
\* str.lower on the names the operator and the survey use
Lower(str) ==
    CASE str \in {"Ann", "ANN"} -> "ann"
      [] str \in {"Bob", "BOB"} -> "bob"
      [] str \in {"Cat", "CAT"} -> "cat"
      [] str \in {"Dan", "DAN"} -> "dan"
      [] str \in {"Eve", "EVE"} -> "eve"
      [] str \in {"Fay", "FAY"} -> "fay"
      [] str \in {"Gus", "GUS"} -> "gus"
      [] str \in {"Zed", "ZED"} -> "zed"
      [] OTHER -> str

\* the warning list cut off after the first low team
warn_low_scores_first(scores_) ==
    LET low == {i \in 1..Len(scores_) : RLess(scores_[i], LOW_SCORE_THRESHOLD)}
    IN  IF low = {} THEN <<>>
        ELSE LET i == CHOOSE j \in low : \A k \in low : j <= k
             IN  <<[team |-> i, score |-> RoundUnits(scores_[i], 1000)]>>

\* one entry per warning string: the team number and the score it prints
warn_low_scores(scores_) ==
    LET low == {i \in 1..Len(scores_) : RLess(scores_[i], LOW_SCORE_THRESHOLD)}
        RECURSIVE Walk(_)
        Walk(i) ==
            IF i > Len(scores_) THEN <<>>
            ELSE IF i \in low
                 THEN <<[team |-> i, score |-> RoundUnits(scores_[i], 1000)]>> \o Walk(i + 1)
            ELSE Walk(i + 1)
    IN  Walk(1)

\* the range test without its lower bound
IndexOutOfRange_upper(idx, len) == idx >= len

IndexOutOfRange(idx, len) == idx < 0 \/ idx >= len

\* position (from 1) of the first member whose lower-cased name matches, or 0
FindStudent(team, student_name) ==
    LET hits == {i \in 1..Len(team) : Lower(Row(team[i]).name) = Lower(student_name)}
    IN  IF hits = {} THEN 0 ELSE CHOOSE i \in hits : \A j \in hits : i <= j

\* the student appended to the target without being popped from the source
RemoveAt_keep(seq, pos) == seq

\* list.pop(pos), the list left behind
RemoveAt(seq, pos) == [i \in 1..(Len(seq) - 1) |-> IF i < pos THEN seq[i] ELSE seq[i + 1]]

\* teams[idx]: Python counts a negative index from the end of the list
PyIndex(idx, len) == IF idx < 0 THEN len + idx + 1 ELSE idx + 1

\* the student put at the head of the target team
move_student_front(lists, student_name, from_idx, to_idx) ==
    IF IndexOutOfRange(from_idx, Len(lists)) \/ IndexOutOfRange(to_idx, Len(lists))
    THEN [ok |-> FALSE, teams |-> lists]
    ELSE LET src == PyIndex(from_idx, Len(lists))
             dst == PyIndex(to_idx, Len(lists))
             team_from == lists[src]
             pos == FindStudent(team_from, student_name)
             popped == [lists EXCEPT ![src] = RemoveAt(team_from, pos)]
         IN  IF pos = 0 THEN [ok |-> FALSE, teams |-> lists]
             ELSE [ok |-> TRUE,
                   teams |-> [popped EXCEPT ![dst] = <<team_from[pos]>> \o @]]

\* tui.py:51-60 on 0-based indices: [ok, teams]
move_student(lists, student_name, from_idx, to_idx) ==
    IF IndexOutOfRange(from_idx, Len(lists)) \/ IndexOutOfRange(to_idx, Len(lists))
    THEN [ok |-> FALSE, teams |-> lists]
    ELSE LET src == PyIndex(from_idx, Len(lists))
             dst == PyIndex(to_idx, Len(lists))
             team_from == lists[src]
             pos == FindStudent(team_from, student_name)
             popped == [lists EXCEPT ![src] = RemoveAt(team_from, pos)]
         IN  IF pos = 0 THEN [ok |-> FALSE, teams |-> lists]
             ELSE [ok |-> TRUE,
                   teams |-> [popped EXCEPT ![dst] = Append(@, team_from[pos])]]

\* a team dropped once its list is empty
WithMembers_drop_empty(lists) ==
    LET kept == SubSeqOf([i \in 1..Len(teams) |-> i],
                         {i \in 1..Len(teams) : lists[i] # <<>>})
    IN  [k \in 1..Len(kept) |-> [teams[kept[k]] EXCEPT !.members = lists[kept[k]]]]

\* the lists of team_lists are the "members" lists of teams
WithMembers(lists) == [i \in 1..Len(teams) |-> [teams[i] EXCEPT !.members = lists[i]]]

\* the move handler without its recalculation
ScoresAfterMove_stale(lists, cached) == cached

\* tui.py:106
ScoresAfterMove(lists, cached) == recalc_scores(lists)

\* tui.py:79 prints the scores the loop holds
ScoresForList(lists, cached) == cached

\* tui.py:98-115: what the move command leaves behind, the prompts answered
\* with a name and two team numbers
Moved(lists, fresh) ==
    [ok |-> TRUE, lists |-> lists, scores |-> fresh, shown |-> list_scores(fresh),
     warnings |-> warn_low_scores(fresh), report |-> "moved"]

MoveCommand(lists, cached, shown_, warnings_, name, from_team, to_team) ==
    LET res == move_student(lists, name, from_team - 1, to_team - 1)
    IN  IF ~res.ok
        THEN [ok |-> FALSE, lists |-> lists, scores |-> cached, shown |-> shown_,
              warnings |-> warnings_, report |-> "move failed"]
        ELSE Moved(res.teams, ScoresAfterMove(res.teams, cached))

NameInputs == {Row(students[i]).name : i \in 1..Len(students)} \cup {"CAT", "Zed"}

mainVars == <<students, num_projects, interactive>>

\* tui.py:64-65
StartSession ==
    /\ pc = "formed"
    /\ interactive
    /\ pc' = "loop"
    /\ session' = "Active"
    /\ scores' = recalc_scores(team_lists)
    /\ shown' = list_scores(scores')
    /\ report' = "list"
    /\ UNCHANGED <<warnings, moves, err, should_export, final_teams>>
    /\ UNCHANGED mainVars
    /\ UNCHANGED formVars
    /\ UNCHANGED pureVars

\* tui.py:69-71, 121
CmdQuit ==
    /\ pc = "loop"
    /\ session = "Active"
    /\ session' = "Abandoned"
    /\ report' = "exiting without saving"
    /\ should_export' = FALSE
    /\ pc' = "returned"
    /\ UNCHANGED <<scores, shown, warnings, moves, err, final_teams>>
    /\ UNCHANGED mainVars
    /\ UNCHANGED formVars
    /\ UNCHANGED pureVars

\* tui.py:72-77
CmdDone ==
    /\ pc = "loop"
    /\ session = "Active"
    /\ session' = "Finalized"
    /\ report' = "finalizing"
    /\ should_export' = TRUE
    /\ pc' = "returned"
    /\ UNCHANGED <<scores, shown, warnings, moves, err, final_teams>>
    /\ UNCHANGED mainVars
    /\ UNCHANGED formVars
    /\ UNCHANGED pureVars

\* tui.py:78-79
CmdList ==
    /\ pc = "loop"
    /\ session = "Active"
    /\ shown' = list_scores(ScoresForList(team_lists, scores))
    /\ report' = "list"
    /\ UNCHANGED <<pc, session, scores, warnings, moves, err, should_export, final_teams>>
    /\ UNCHANGED mainVars
    /\ UNCHANGED formVars
    /\ UNCHANGED pureVars

\* tui.py:80-82
CmdScore ==
    /\ pc = "loop"
    /\ session = "Active"
    /\ scores' = recalc_scores(team_lists)
    /\ shown' = list_scores(scores')
    /\ report' = "scores"
    /\ UNCHANGED <<pc, session, warnings, moves, err, should_export, final_teams>>
    /\ UNCHANGED mainVars
    /\ UNCHANGED formVars
    /\ UNCHANGED pureVars

\* tui.py:83-91
CmdWarn ==
    /\ pc = "loop"
    /\ session = "Active"
    /\ scores' = recalc_scores(team_lists)
    /\ warnings' = warn_low_scores(scores')
    /\ report' = IF warnings' # <<>> THEN "warnings" ELSE "no warnings"
    /\ UNCHANGED <<pc, session, shown, moves, err, should_export, final_teams>>
    /\ UNCHANGED mainVars
    /\ UNCHANGED formVars
    /\ UNCHANGED pureVars

\* the team numbers the operator types: every team, and one to either side
TeamNumbers == 0..(num_projects + 1)

\* what the move command can leave behind, over every answer to its prompts
MoveOutcomes ==
    {MoveCommand(team_lists, scores, shown, warnings, in[1], in[2], in[3]) :
        in \in NameInputs \X TeamNumbers \X TeamNumbers}

\* tui.py:92-115, the three prompts answered with a name and two integers
CmdMove ==
    /\ pc = "loop"
    /\ session = "Active"
    /\ moves < MaxMoves
    /\ moves' = moves + 1
    /\ \E res \in MoveOutcomes :
           /\ teams' = WithMembers(res.lists)
           /\ scores' = res.scores
           /\ shown' = res.shown
           /\ warnings' = res.warnings
           /\ report' = res.report
    /\ UNCHANGED <<pc, session, err, should_export, final_teams>>
    /\ UNCHANGED <<compat, team_sizes, remaining, project_scores, assigned_projects>>
    /\ UNCHANGED mainVars
    /\ UNCHANGED pureVars

\* tui.py:99-100, 116-117: a team number that int() rejects
CmdMoveBadNumber ==
    /\ pc = "loop"
    /\ session = "Active"
    /\ moves < MaxMoves
    /\ moves' = moves + 1
    /\ report' = "invalid input"
    /\ UNCHANGED <<pc, session, scores, shown, warnings, err, should_export, final_teams>>
    /\ UNCHANGED mainVars
    /\ UNCHANGED formVars
    /\ UNCHANGED pureVars

\* an unrecognised command taken for quit
CmdUnknown_quits ==
    /\ pc = "loop"
    /\ session = "Active"
    /\ session' = "Abandoned"
    /\ report' = "unknown command"
    /\ should_export' = FALSE
    /\ pc' = "returned"
    /\ UNCHANGED <<scores, shown, warnings, moves, err, final_teams>>
    /\ UNCHANGED mainVars
    /\ UNCHANGED formVars
    /\ UNCHANGED pureVars

\* tui.py:118-119
CmdUnknown ==
    /\ pc = "loop"
    /\ session = "Active"
    /\ report' = "unknown command"
    /\ UNCHANGED <<pc, session, scores, shown, warnings, moves, err, should_export,
                   final_teams>>
    /\ UNCHANGED mainVars
    /\ UNCHANGED formVars
    /\ UNCHANGED pureVars

\* -------------------------------------------------------- main.py main
\* main.py:241-262, without --interactive
DemoMode ==
    /\ pc = "formed"
    /\ ~interactive
    /\ scores' = recalc_scores(team_lists)
    /\ shown' = list_scores(scores')
    /\ warnings' = warn_low_scores(scores')
    /\ report' = IF warnings' # <<>> THEN "warnings" ELSE "no warnings"
    /\ should_export' = TRUE
    /\ pc' = "returned"
    /\ UNCHANGED <<session, moves, err, final_teams>>
    /\ UNCHANGED mainVars
    /\ UNCHANGED formVars
    /\ UNCHANGED pureVars

ExportedCompatibility(t) == teams[t].compatibility

\* main.py:264-282
Export ==
    /\ pc = "returned"
    /\ should_export
    /\ final_teams' = [i \in 1..Len(team_lists) |->
                          [compatibility |-> ExportedCompatibility(i),
                           members |-> team_lists[i],
                           project |-> teams[i].project]]
    /\ pc' = "exported"
    /\ UNCHANGED <<err, should_export>>
    /\ UNCHANGED mainVars
    /\ UNCHANGED formVars
    /\ UNCHANGED loopVars
    /\ UNCHANGED pureVars

\* main.py:290-291
NoExport ==
    /\ pc = "returned"
    /\ ~should_export
    /\ pc' = "exited"
    /\ UNCHANGED <<err, should_export, final_teams>>
    /\ UNCHANGED mainVars
    /\ UNCHANGED formVars
    /\ UNCHANGED loopVars
    /\ UNCHANGED pureVars

Next ==
    \/ FormTeamsEnter
    \/ AssembleStep
    \/ ProjectPreferences
    \/ AllocateStep
    \/ FormTeamsReturn
    \/ StartSession
    \/ CmdQuit
    \/ CmdDone
    \/ CmdList
    \/ CmdScore
    \/ CmdWarn
    \/ CmdMove
    \/ CmdMoveBadNumber
    \/ CmdUnknown
    \/ DemoMode
    \/ Export
    \/ NoExport

Spec == Init /\ [][Next]_vars

NextForm ==
    \/ FormTeamsEnter
    \/ AssembleStep
    \/ ProjectPreferences
    \/ AllocateStep
    \/ FormTeamsReturn

SpecForm == InitForm /\ [][NextForm]_vars

\* ------------------------------------ compute_compatibility called directly
\* students who share every compared attribute: Hal and Ian name each other
\* and themselves, Jo and Kim both name Kim only
PurePersons ==
    SeqSet(Pool) \cup
    { Student("Hal", <<4, 4, 2, 1, 3>>, <<"Hal", "Ian">>, <<2, 2, 4, 0>>, 15, <<>>, <<>>),
      Student("Ian", <<4, 4, 2, 1, 3>>, <<"Hal", "Ian">>, <<2, 2, 4, 0>>, 15, <<>>, <<>>),
      Student("Jo", <<1, 5, 5, 2, 0>>, <<"Kim">>, <<5, 5, 0, 1>>, 8, <<>>, <<>>),
      Student("Kim", <<1, 5, 5, 2, 0>>, <<"Kim">>, <<5, 5, 0, 1>>, 8, <<>>, <<>>) }

InitCompat ==
    /\ pc = "pure"
    /\ arg1 \in PurePersons
    /\ arg2 \in PurePersons
    /\ total = -1
    /\ students = <<>>
    /\ num_projects = 1
    /\ interactive = FALSE
    /\ compat = <<>>
    /\ team_sizes = <<>>
    /\ remaining = <<>>
    /\ teams = <<>>
    /\ project_scores = <<>>
    /\ assigned_projects = {}
    /\ err = None
    /\ session = None
    /\ scores = <<>>
    /\ shown = <<>>
    /\ warnings = <<>>
    /\ report = None
    /\ moves = 0
    /\ should_export = FALSE
    /\ final_teams = <<>>

\* main.py:77-108
CallCompat ==
    /\ pc = "pure"
    /\ total = -1
    /\ total' = compute_compatibility(arg1, arg2)
    /\ UNCHANGED <<pc, arg1, arg2, err, should_export, final_teams>>
    /\ UNCHANGED mainVars
    /\ UNCHANGED formVars
    /\ UNCHANGED loopVars

SpecCompat == InitCompat /\ [][CallCompat]_vars

\* ================================================================ properties
TotalMembers == ISum([t \in 1..Len(teams) |-> Len(teams[t].members)])

CeilDiv(n, p) == (n + p - 1) \div p

Occurrences(s) ==
    Cardinality({tm \in (1..Len(teams)) \X (1..Len(students)) :
                    tm[2] <= Len(teams[tm[1]].members) /\ teams[tm[1]].members[tm[2]] = s})

AssemblyDone == pc \notin {"main", "aborted"} /\ Len(teams) = Len(team_sizes)

\* C2: once assembly has placed the last team, and after any refinement
\* command, every student of the roster is in exactly one team, once.
C2_ExactlyOneTeam ==
    AssemblyDone =>
      /\ TotalMembers = Len(students)
      /\ \A i \in 1..Len(students) : Occurrences(students[i]) = 1

C2_Witness ==
    /\ pc = "loop"
    /\ report = "moved"
    /\ moves = 2
    /\ \E t \in 1..Len(teams) : Len(teams[t].members) > team_sizes[t]

\* C3: with n < 2p form_teams raises its ValueError before the compatibility
\* table, the sizes or any team exist, and the run goes no further: no
\* session, nothing printed, nothing exported.
C3_InsufficientRosterAborts ==
    Len(students) < 2 * num_projects =>
      /\ pc \in {"main", "aborted"}
      /\ pc = "aborted" => err = "ValueError"
      /\ team_sizes = <<>>
      /\ remaining = <<>>
      /\ teams = <<>>
      /\ session = None
      /\ shown = <<>>
      /\ final_teams = <<>>

C3_Witness ==
    /\ pc = "aborted"
    /\ err = "ValueError"
    /\ Len(students) = 3
    /\ num_projects = 2

MeanRank(members, i) ==
    Rat(ISum([m \in 1..Len(members) |-> Row(members[m]).project_ranks[i]]), Len(members))

\* C4: when form_teams returns, the teams' project ids are a permutation of
\* 1..p.
C4_DistinctProjects ==
    pc = "formed" =>
      /\ Len(teams) = num_projects
      /\ \A t \in 1..Len(teams) : ProjectId(teams[t].project) \in 1..num_projects
      /\ \A t, u \in 1..Len(teams) : t # u => teams[t].project # teams[u].project

\* a team that was refused the project it values most
C4_Witness ==
    /\ pc = "formed"
    /\ num_projects = 3
    /\ \E t \in 2..Len(teams) : \E u \in 1..(t - 1) :
          LET own == ProjectId(teams[t].project)
              top == ProjectId(teams[u].project)
          IN  RLess(MeanRank(teams[t].members, own), MeanRank(teams[t].members, top))

NameMatches(s, name) == Lower(Row(s).name) = Lower(name)

CountNamed(team, name) == Cardinality({i \in 1..Len(team) : NameMatches(team[i], name)})

Total(lists) == ISum([t \in 1..Len(lists) |-> Len(lists[t])])

\* C5 as claimed: a move that reports success keeps the sum of the team sizes,
\* leaves the named student out of the source team and once in the
\* destination team, for every pair of valid team numbers.
C5_AnyValidPair ==
    pc = "loop" =>
      \A name \in NameInputs, f \in TeamNumbers, t \in TeamNumbers :
         LET res == move_student(team_lists, name, f - 1, t - 1)
         IN  res.ok =>
               /\ Total(res.teams) = Total(team_lists)
               /\ CountNamed(res.teams[f], name) = 0
               /\ CountNamed(res.teams[t], name) = 1

\* C5 amended: a move that reports success keeps the sum of the team sizes;
\* between two different teams the named student is then out of the source
\* team and once in the destination team; within one team the student stays
\* in it once, as its last member.
C5_MoveConserves ==
    pc = "loop" =>
      \A name \in NameInputs, f \in TeamNumbers, t \in TeamNumbers :
         LET res == move_student(team_lists, name, f - 1, t - 1)
         IN  res.ok =>
               /\ Total(res.teams) = Total(team_lists)
               /\ CountNamed(res.teams[t], name) = 1
               /\ NameMatches(res.teams[t][Len(res.teams[t])], name)
               /\ f # t => CountNamed(res.teams[f], name) = 0
               /\ f = t => Len(res.teams[f]) = Len(team_lists[f])

C5_Witness ==
    /\ pc = "loop"
    /\ report = "moved"
    /\ moves = 1
    /\ \E t \in 1..Len(teams) : Len(teams[t].members) = team_sizes[t] - 1

InvalidMove(name, f, t) ==
    \/ f < 1
    \/ f > Len(team_lists)
    \/ t < 1
    \/ t > Len(team_lists)
    \/ CountNamed(team_lists[f], name) = 0

\* C6: a move with a team number out of range or a name that is not in the
\* source team fails without an exception: memberships, the scores held and
\* shown and the warnings stay as they were, the operator is told the move
\* failed, and the session is still Active at its prompt.
C6_FailedMove ==
    /\ pc = "loop" =>
         \A name \in NameInputs, f \in TeamNumbers, t \in TeamNumbers :
            InvalidMove(name, f, t) =>
               LET r == MoveCommand(team_lists, scores, shown, warnings, name, f, t)
               IN  /\ ~r.ok
                   /\ r.lists = team_lists
                   /\ r.scores = scores
                   /\ r.shown = shown
                   /\ r.warnings = warnings
                   /\ r.report = "move failed"
    /\ report = "move failed" => (pc = "loop" /\ session = "Active" /\ err = None)

C6_Witness ==
    /\ report = "move failed"
    /\ session = "Active"
    /\ moves = 2
    /\ Total(team_lists) = Len(students)

\* C7 as claimed: each exported team's compatibility is the rounded mean
\* pairwise compatibility of the members it is exported with.
C7_ExportedCompatibilityFresh ==
    pc = "exported" =>
      \A i \in 1..Len(final_teams) :
         Len(final_teams[i].members) >= 2 =>
            final_teams[i].compatibility
               = RoundUnits(AvgScore(compat, final_teams[i].members), 1)

Fresh == recalc_scores(team_lists)

\* C8: the scores last listed, and the scores in the warnings last raised,
\* are the scores of the teams as they are now.
C8_ShownScoresFresh ==
    /\ shown # <<>> => shown = list_scores(Fresh)
    /\ \A k \in 1..Len(warnings) :
          /\ warnings[k].score = RoundUnits(Fresh[warnings[k].team], 1000)
          /\ RLess(Fresh[warnings[k].team], LOW_SCORE_THRESHOLD)

C8_Witness ==
    /\ pc = "loop"
    /\ report = "list"
    /\ moves >= 1
    /\ \E t \in 1..Len(teams) : Len(teams[t].members) # team_sizes[t]

InvertedRank(members, i) ==
    Rat(ISum([m \in 1..Len(members) |-> NumRanks + 1 - Row(members[m]).project_ranks[i]]),
        Len(members))

ClaimedBefore(t) == {ProjectId(teams[u].project) : u \in 1..(t - 1)}

\* C9 as claimed: the value of project i to a team is the mean over its
\* members of (5 + 1 - rank), and the team gets the unclaimed project with
\* the highest such value.
C9_InvertedRankPreference ==
    /\ pc = "allocate" =>
         \A k \in 1..Len(project_scores) : \A i \in 1..num_projects :
            project_scores[k][i]
               = InvertedRank(teams[Len(teams) - Len(project_scores) + k].members, i)
    /\ pc = "formed" =>
         \A t \in 1..Len(teams) :
            LET own == ProjectId(teams[t].project)
                open == (1..num_projects) \ ClaimedBefore(t)
            IN  /\ own \in open
                /\ \A i \in open :
                      ~RLess(InvertedRank(teams[t].members, own),
                             InvertedRank(teams[t].members, i))

\* C9 amended: the value of project i to a team is the mean over its members
\* of the rank they gave it (5 the highest rank), and the team gets the
\* unclaimed project with the highest such value.
C9_MeanRankPreference ==
    /\ pc = "allocate" =>
         \A k \in 1..Len(project_scores) : \A i \in 1..num_projects :
            project_scores[k][i]
               = MeanRank(teams[Len(teams) - Len(project_scores) + k].members, i)
    /\ pc = "formed" =>
         \A t \in 1..Len(teams) :
            LET own == ProjectId(teams[t].project)
                open == (1..num_projects) \ ClaimedBefore(t)
            IN  /\ own \in open
                /\ \A i \in open :
                      ~RLess(MeanRank(teams[t].members, own), MeanRank(teams[t].members, i))

\* a team given a project its members rank above another it could have had
C9_Witness ==
    /\ pc = "formed"
    /\ \E t \in 1..Len(teams) :
          LET own == ProjectId(teams[t].project)
          IN  \E i \in (1..num_projects) \ ClaimedBefore(t) :
                 RLess(MeanRank(teams[t].members, i), MeanRank(teams[t].members, own))

SameCompared(a, b) ==
    /\ a.project_ranks = b.project_ranks
    /\ a.teammate_ranks = b.teammate_ranks
    /\ a.skills = b.skills
    /\ a.availability = b.availability

Names(a, b) == Contains(a.teammate_ranks, b.name)

\* C10 as claimed: two students whose compared attributes are identical, a
\* student and itself among them, score 100.
C10_IdenticalScore100 ==
    (total # -1 /\ SameCompared(arg1, arg2)) => total = 100 * 100

\* C10 amended: two students whose compared attributes are identical score
\* 100 when each names the other among its teammate choices (a student paired
\* with itself: when it names itself), 85 when only one is named, 70 when
\* neither is.
C10_IdenticalScore ==
    (total # -1 /\ SameCompared(arg1, arg2)) =>
       total = IF Names(arg1, arg2) /\ Names(arg2, arg1) THEN 100 * 100
               ELSE IF Names(arg1, arg2) \/ Names(arg2, arg1) THEN 85 * 100
               ELSE 70 * 100

C10_Witness ==
    /\ total = 70 * 100
    /\ arg1 = arg2

\* C11: compute_compatibility gives the same score for a pair whichever of
\* the two is passed first.
C11_Symmetric ==
    total # -1 => total = compute_compatibility(arg2, arg1)

\* a scored pair in which only the first names the second, and the two differ
\* in every compared attribute
C11_Witness ==
    /\ total # -1
    /\ Names(arg1, arg2) /\ ~Names(arg2, arg1)
    /\ arg1.project_ranks # arg2.project_ranks
    /\ arg1.skills # arg2.skills
    /\ arg1.availability # arg2.availability

\* a step of the loop that handles a command other than d and q; s and w are
\* known by what they report, a move command by the count of moves
OtherCommand ==
    \/ CmdList
    \/ CmdUnknown
    \/ (pc = "loop" /\ report' \in {"scores", "warnings", "no warnings"})
    \/ (pc = "loop" /\ moves' # moves)

\* C12: the session becomes Active when the loop starts; it leaves Active only
\* by d, which ends it Finalized with the export signal, or by q, which ends it
\* Abandoned without the signal; every other command, an unknown one included,
\* keeps it Active; once Finalized or Abandoned no command is handled any more;
\* and after an interactive session the result sink is called exactly when the
\* session ended Finalized.
C12_SessionLifecycle ==
    [][ /\ (session # "Active" /\ session' = "Active") =>
              (session = None /\ pc = "formed" /\ interactive)
        /\ (session = "Active" /\ session' # "Active") =>
              \/ /\ report' = "finalizing"
                 /\ session' = "Finalized"
                 /\ should_export'
                 /\ pc' = "returned"
              \/ /\ report' = "exiting without saving"
                 /\ session' = "Abandoned"
                 /\ ~should_export'
                 /\ pc' = "returned"
        /\ CmdDone => (session' = "Finalized" /\ should_export')
        /\ CmdQuit => (session' = "Abandoned" /\ ~should_export')
        /\ OtherCommand => (session' = "Active" /\ pc' = "loop")
        /\ session \in {"Finalized", "Abandoned"} =>
              (UNCHANGED loopVars /\ UNCHANGED teams /\ pc' \in {"exported", "exited"})
        /\ (interactive /\ pc' = "exported") => session = "Finalized"
        /\ (interactive /\ pc' = "exited") => session = "Abandoned"
        /\ (session = "Finalized" /\ pc = "returned") =>
              (pc' = "exported" /\ final_teams' # <<>>)
        /\ (session = "Abandoned" /\ pc = "returned") =>
              (pc' = "exited" /\ final_teams' = <<>>)
      ]_vars

\* a session finalized after a move and handed to the result sink
C12_Witness ==
    /\ interactive
    /\ session = "Finalized"
    /\ moves > 0
    /\ pc = "exported"
    /\ final_teams # <<>>

\* how many of the warnings name team i
WarningsFor(ws, i) == Cardinality({k \in 1..Len(ws) : ws[k].team = i})

\* the warn command has just been handled
Warned == pc = "loop" /\ report \in {"warnings", "no warnings"}

\* C13: after the warn command there is exactly one warning for each team
\* whose score, recomputed from its current members, is below 0.45, and none
\* for a team scoring 0.45 or more; "no warnings" is reported exactly when no
\* team is below; a score of 0.10 is warned about, one of exactly 0.45 is not.
C13_WarnBelowThreshold ==
    /\ Warned =>
          LET fresh == recalc_scores(team_lists)
          IN  /\ \A i \in 1..Len(fresh) :
                    WarningsFor(warnings, i)
                       = IF RLess(fresh[i], <<45, 100>>) THEN 1 ELSE 0
              /\ \A k \in 1..Len(warnings) : warnings[k].team \in 1..Len(fresh)
              /\ (report = "no warnings") <=>
                    (\A i \in 1..Len(fresh) : ~RLess(fresh[i], <<45, 100>>))
    /\ warn_low_scores(<<<<1, 10>>>>) = <<[team |-> 1, score |-> 100]>>
    /\ warn_low_scores(<<<<45, 100>>, <<1, 10>>, <<1, 1>>>>) = <<[team |-> 2, score |-> 100]>>
    /\ warn_low_scores(<<<<45, 100>>, <<1, 2>>>>) = <<>>

\* the warn command handled after a move, with one team below 0.45 and one
\* not
C13_Witness ==
    /\ Warned
    /\ moves > 0
    /\ Len(warnings) = 1
    /\ Len(teams) = 2

\* the mean of compute_compatibility over all pairs of a combination, in
\* hundredths
MeanCompat(combo) ==
    LET prs == Combinations([i \in 1..Len(combo) |-> i], 2)
    IN  Rat(ISum([k \in 1..Len(prs) |->
                    compute_compatibility(Row(combo[prs[k][1]]), Row(combo[prs[k][2]]))]),
            Len(prs))

\* the pool assembly step k chose from: the roster, in its order, without the
\* students of the earlier teams
PoolAt(k) ==
    LET gone == UNION {{teams[t].members[m] : m \in 1..Len(teams[t].members)} :
                          t \in 1..(k - 1)}
    IN  SubSeqOf(students, {i \in 1..Len(students) : students[i] \notin gone})

\* C14: every team assembled so far is a combination, of its target size, of
\* the pool left by the teams before it; no combination of that size of that
\* pool has a higher mean pairwise compatibility; every combination enumerated
\* before it has a strictly lower one; and the pool left for the next step is
\* that pool without the chosen members.
C14_GreedyBestFirst ==
    pc \in {"assemble", "allocate", "formed"} =>
      /\ \A k \in 1..Len(teams) :
            LET combos == Combinations(PoolAt(k), team_sizes[k])
                chosen == teams[k].members
                score == MeanCompat(chosen)
            IN  \E j \in 1..Len(combos) :
                   /\ combos[j] = chosen
                   /\ \A i \in 1..Len(combos) : ~RLess(score, MeanCompat(combos[i]))
                   /\ \A i \in 1..(j - 1) : RLess(MeanCompat(combos[i]), score)
      /\ remaining = PoolAt(Len(teams) + 1)

\* a team chosen ahead of a later combination of the same pool with exactly
\* the same score, while students were still left for another team
C14_Witness ==
    /\ pc = "assemble"
    /\ Len(teams) >= 1
    /\ Len(teams) < Len(team_sizes)
    /\ \E k \in 1..Len(teams) :
          LET combos == Combinations(PoolAt(k), team_sizes[k])
          IN  \E i \in 1..Len(combos) :
                 /\ combos[i] # teams[k].members
                 /\ MeanCompat(combos[i]) = MeanCompat(teams[k].members)

\* the teams that have been given a project
Allocated == {u \in 1..Len(teams) : "project" \in DOMAIN teams[u]}

\* C15: every step of the allocation gives a project to the first team,
\* in assembly order, that has none; the project is one no earlier team holds
\* and no other such project has a higher preference value for the team; the
\* step changes nothing else in any team, so no earlier team's project changes.
C15_AllocationInOrder ==
    [][ (pc = "allocate" /\ teams' # teams) =>
          LET t == Cardinality(Allocated) + 1
              open == (1..num_projects) \ {ProjectId(teams[u].project) : u \in Allocated}
              own == ProjectId(teams'[t].project)
          IN  /\ Allocated = 1..(t - 1)
              /\ t <= Len(teams)
              /\ Len(teams') = Len(teams)
              /\ \A u \in (1..Len(teams)) \ {t} : teams'[u] = teams[u]
              /\ teams'[t].members = teams[t].members
              /\ teams'[t].compatibility = teams[t].compatibility
              /\ own \in open
              /\ \A i \in open :
                    ~RLess(MeanRank(teams[t].members, own), MeanRank(teams[t].members, i))
      ]_vars

\* part-way through the allocation, a team holding a project it values less
\* than one an earlier team holds
C15_Witness ==
    /\ pc = "allocate"
    /\ project_scores # <<>>
    /\ \E t \in Allocated : \E u \in 1..(t - 1) :
          RLess(MeanRank(teams[t].members, ProjectId(teams[t].project)),
                MeanRank(teams[t].members, ProjectId(teams[u].project)))

\* the names a student entered as teammate choices
Preferences(s) == SeqSet(s.teammate_ranks) \ {""}

\* the Jaccard overlap of two students' teammate choices
Jaccard(a, b) ==
    IF Preferences(a) \cup Preferences(b) = {} THEN <<0, 1>>
    ELSE Rat(Cardinality(Preferences(a) \cap Preferences(b)),
             Cardinality(Preferences(a) \cup Preferences(b)))

\* the values the stated rule allows for a team: 0.5 when no pair has a
\* preference, else the mean overlap over the in-team pairs, taken either over
\* all of them or over those in which a preference was entered
StatedSynergy(members) ==
    LET prs == Combinations([i \in 1..Len(members) |-> i], 2)
        HasPreference(pr) ==
            Preferences(members[pr[1]]) \cup Preferences(members[pr[2]]) # {}
        some == SelectSeq(prs, HasPreference)
        overlap(sel) == fmean([k \in 1..Len(sel) |->
                                  Jaccard(members[sel[k][1]], members[sel[k][2]])])
    IN  IF some = <<>> THEN {<<1, 2>>} ELSE {overlap(prs), overlap(some)}

\* C16 as claimed: the pairwise synergy that enters a team's score is 0.5 when
\* no pair of its members entered a teammate preference, and the mean Jaccard
\* overlap of the members' preference lists otherwise.
C16_SynergyOfPreferences ==
    session = "Active" =>
      \A t \in 1..Len(team_lists) :
         compute_team_features(Deref(team_lists[t])).pairwise_synergy
            \in StatedSynergy(Deref(team_lists[t]))

\* a step of the loop that moved a student from one team to another: some
\* team's size changed
MovedAcross ==
    /\ pc = "loop"
    /\ \E u \in 1..Len(teams) : Len(teams'[u].members) # Len(teams[u].members)

\* C17: a move between two different teams takes one member out of the source
\* team, the others keeping their order, puts that member last in the
\* destination team, and leaves every other team's members and every team's
\* project as they were.
C17_MoveTouchesTwoTeams ==
    [][ MovedAcross =>
          /\ Len(teams') = Len(teams)
          /\ \E f, t \in 1..Len(teams) :
                /\ f # t
                /\ \E pos \in 1..Len(teams[f].members) :
                      /\ teams'[f].members
                            = SubSeqOf(teams[f].members,
                                       (1..Len(teams[f].members)) \ {pos})
                      /\ teams'[t].members
                            = Append(teams[t].members, teams[f].members[pos])
                /\ \A u \in (1..Len(teams)) \ {f, t} :
                      teams'[u].members = teams[u].members
          /\ \A u \in 1..Len(teams) : teams'[u].project = teams[u].project
      ]_vars

\* three teams after one move: one a member short, one a member over and one
\* at its size
C17_Witness ==
    /\ pc = "loop"
    /\ report = "moved"
    /\ moves = 1
    /\ Len(teams) = 3
    /\ \E f, t, u \in 1..3 :
          /\ Len(teams[f].members) = team_sizes[f] - 1
          /\ Len(teams[t].members) = team_sizes[t] + 1
          /\ Len(teams[u].members) = team_sizes[u]

\* C18: from the first prompt of the refinement on there are as many teams
\* as projects; no command adds or removes a team or changes a team's project,
\* whether or not it leaves a team without members; and the export hands over
\* every team, in its place, with its project and the members it has, an
\* emptied team included.
C18_TeamCountConstant ==
    [][ /\ pc \in {"loop", "returned"} =>
              /\ Len(teams) = num_projects
              /\ Len(teams') = Len(teams)
              /\ \A u \in 1..Len(teams) : teams'[u].project = teams[u].project
        /\ (pc = "returned" /\ pc' = "exported") =>
              /\ Len(final_teams') = num_projects
              /\ \A u \in 1..Len(teams) :
                    /\ final_teams'[u].project = teams[u].project
                    /\ final_teams'[u].members = teams[u].members
      ]_vars

\* a finalized session of three teams, one of them emptied by two moves and
\* exported with its project and no members
C18_Witness ==
    /\ pc = "exported"
    /\ session = "Finalized"
    /\ moves = 2
    /\ Len(final_teams) = 3
    /\ \E u \in 1..3 :
          /\ final_teams[u].members = <<>>
          /\ ProjectId(final_teams[u].project) \in 1..3

====
